---- MODULE Spec2Model ----
(***************************************************************************)
(* Conversation state of the SurvivalFox chat client:                      *)
(*   src/dev/frontend/app/page.tsx       (Home: controller, stores)        *)
(*   src/dev/frontend/lib/api.ts         (ragAnswer: answer gateway)       *)
(*   src/dev/frontend/app/menu/page.tsx  (MenuPage: game selection)        *)
(*                                                                         *)
(* JavaScript values are modelled as tagged records.  A string is a        *)
(* sequence of tokens (one token per character where the code looks at     *)
(* characters: identifiers, queries, source fields; one token for a fixed  *)
(* text such as an error message).  An array is a sequence, an object a    *)
(* function from its own property names to values.                         *)
(***************************************************************************)
EXTENDS Integers, Sequences, FiniteSets, TLC

VARIABLES
    page,                 \* route shown: "home" (Home mounted) or "menu" (MenuPage mounted)
    loaded,               \* Home: the initial load effect (page.tsx:295-307) has run
    sessionId,            \* Home state, page.tsx:278
    threadId,             \* Home state, page.tsx:279
    gameId,               \* Home state, page.tsx:280
    spoilerLevel,         \* Home state, page.tsx:284
    query,                \* Home state, page.tsx:286
    loading,              \* Home state, page.tsx:287
    err,                  \* Home state, page.tsx:288
    messages,             \* Home state, page.tsx:290
    sourcesForMessageId,  \* Home state, page.tsx:291
    localStorage,         \* the browser's key-value store, key -> Null or a text
    pending,              \* the ragAnswer call awaited by the mounted Home, or NoCall
    stale,                \* ragAnswer calls awaited by Home instances that were unmounted
    nSent,                \* number of requests handed to supabase.functions.invoke
    nextId,               \* number of message ids drawn from crypto.randomUUID()
    clockReads,           \* number of values read from Date.now()
    lastOp                \* history: the step that ran last (not the edits of the input
                          \* controls) and the outcome it handled

vars == <<page, loaded, sessionId, threadId, gameId, spoilerLevel, query, loading, err,
          messages, sourcesForMessageId, localStorage, pending, stale, nSent, nextId,
          clockReads, lastOp>>

homeVars == <<sessionId, threadId, gameId, spoilerLevel, query, loading, err, messages,
              sourcesForMessageId>>

(***************************************************************************)
(* Bounds of the model.                                                    *)
(***************************************************************************)
\* accepted asks in one behaviour
MaxAsks == 1

(***************************************************************************)
(* JavaScript values.                                                      *)
(***************************************************************************)
Undef == [t |-> "undefined"]
Null == [t |-> "null"]
Bool(b) == [t |-> "boolean", b |-> b]
Num(n) == [t |-> "number", n |-> n]
Str(s) == [t |-> "string", v |-> s]
Arr(a) == [t |-> "array", a |-> a]
Obj(f) == [t |-> "object", f |-> f]
\* an instance of Error (api.ts:38 tests instanceof Error)
ErrorObj(f) == [t |-> "object", f |-> f, error |-> TRUE]
\* a text that JSON.parse reads as the value j
JsonText(j) == [t |-> "string", json |-> j]
\* a text that is the JSON of a value that is no array: the value v
JsonValueText(v) == [t |-> "string", jsonValue |-> v]
\* a text that JSON.parse rejects with a SyntaxError
GarbageText == [t |-> "string", garbage |-> TRUE]

\* typeof x
TypeOf(x) ==
    IF x.t \in {"array", "null"} THEN "object" ELSE x.t

\* JavaScript truthiness (the !x, x || y and if (x) of the sources)
Truthy(x) ==
    CASE x.t = "undefined" -> FALSE
      [] x.t = "null" -> FALSE
      [] x.t = "boolean" -> x.b
      [] x.t = "number" -> x.n # 0
      [] x.t = "string" -> IF "v" \in DOMAIN x THEN x.v # <<>> ELSE TRUE
      [] OTHER -> TRUE

\* o.k for an object o: undefined when o has no property k
Get(o, k) == IF k \in DOMAIN o THEN o[k] ELSE Undef

\* property read on any value, as d.session_id at api.ts:117
Prop(x, k) == IF x.t = "object" THEN Get(x.f, k) ELSE Undef

\* the object o with property k set to v
Put(o, k, v) == [j \in DOMAIN o \cup {k} |-> IF j = k THEN v ELSE o[j]]

EmptyObj == [k \in {} |-> Undef]

Last(s) == s[Len(s)]

(***************************************************************************)
(* Strings.                                                                *)
(***************************************************************************)
Whitespace == {" ", "\n", "\t"}

RECURSIVE TrimStart(_)
TrimStart(s) ==
    IF s # <<>> /\ Head(s) \in Whitespace THEN TrimStart(Tail(s)) ELSE s

RECURSIVE TrimEnd(_)
TrimEnd(s) ==
    IF s # <<>> /\ Last(s) \in Whitespace THEN TrimEnd(SubSeq(s, 1, Len(s) - 1)) ELSE s

\* String.prototype.trim
Trim(s) == TrimEnd(TrimStart(s))

LowerToken(c) ==
    CASE c = "A" -> "a" [] c = "B" -> "b" [] c = "C" -> "c"
      [] c = "D" -> "d" [] c = "E" -> "e" [] c = "F" -> "f"
      [] c = "VALHEIM" -> "valheim" [] c = "Valheim" -> "valheim"
      [] c = "STARRUPTURE" -> "starrupture" [] c = "StarRupture" -> "starrupture"
      [] OTHER -> c

\* String.prototype.toLowerCase
ToLowerCase(s) == [i \in DOMAIN s |-> LowerToken(s[i])]

Rep(c, n) == [i \in 1..n |-> c]

\* the text cccccccc-cccc-Vccc-Rccc-cccccccccccc
UuidText(c, ver, var) ==
    Rep(c, 8) \o <<"-">> \o Rep(c, 4) \o <<"-", ver>> \o Rep(c, 3)
        \o <<"-", var>> \o Rep(c, 3) \o <<"-">> \o Rep(c, 12)

HexDigits ==
    {"0", "1", "2", "3", "4", "5", "6", "7", "8", "9",
     "a", "b", "c", "d", "e", "f", "A", "B", "C", "D", "E", "F"}

\* the string test of api.ts:69, position by position; the /i flag admits both cases
MatchesUuidRegex(s) ==
    /\ Len(s) = 36
    /\ \A i \in 1..36 :
          CASE i \in {9, 14, 19, 24} -> s[i] = "-"
            [] i = 15 -> s[i] \in {"1", "2", "3", "4", "5"}
            [] i = 20 -> s[i] \in {"8", "9", "a", "b", "A", "B"}
            [] OTHER -> s[i] \in HexDigits

\* a mutant: the version and variant positions accept any hex digit
IsValidUuidAnyVersion(v) ==
    /\ v.t = "string"
    /\ "v" \in DOMAIN v
    /\ Len(v.v) = 36
    /\ \A i \in 1..36 :
          IF i \in {9, 14, 19, 24} THEN v.v[i] = "-" ELSE v.v[i] \in HexDigits

\* isValidUuid, api.ts:66-70
isValidUuid(v) ==
    /\ v.t = "string"
    /\ "v" \in DOMAIN v
    /\ MatchesUuidRegex(v.v)

(***************************************************************************)
(* Local storage (page.tsx:51-54, menu/page.tsx:7-9) and the stores.       *)
(***************************************************************************)
LS_SESSION == "survivalfox_session_id"
LS_THREAD == "survivalfox_thread_id"
LS_MESSAGES == "survivalfox_messages_v1"
LS_GAME_ID == "survivalfox_game_id"

LS_KEYS == {LS_SESSION, LS_THREAD, LS_MESSAGES, LS_GAME_ID}

\* localStorage.getItem / setItem / removeItem on the store ls
GetItem(ls, k) == ls[k]
SetItem(ls, k, text) == [ls EXCEPT ![k] = text]
RemoveItem(ls, k) == [ls EXCEPT ![k] = Null]

\* what crypto.randomUUID() can return when the session id is created
NewSessionIds == {Str(UuidText("a", "4", "8"))}

\* the n-th message id drawn from crypto.randomUUID(): a non-empty text, distinct for distinct n
RandomUuid(n) == [t |-> "string", uuid |-> n]

\* a mutant: the clock runs backwards
ClockRunsBackwards(n) == [t |-> "number", reading |-> 0 - n]

\* the n-th value read from Date.now(): a number; a later reading is never the smaller one
ClockReading(n) == [t |-> "number", reading |-> n]

\* a mutant: the persisted session id is regenerated on every call
GetOrCreateSessionIdAlwaysNew(ls, fresh) ==
    [value |-> fresh, ls |-> SetItem(ls, LS_SESSION, fresh)]

\* getOrCreateSessionId, page.tsx:121-128; fresh is the value of crypto.randomUUID()
getOrCreateSessionId(ls, fresh) ==
    LET existing == GetItem(ls, LS_SESSION)
    IN  IF Truthy(existing)
        THEN [value |-> existing, ls |-> ls]
        ELSE [value |-> fresh, ls |-> SetItem(ls, LS_SESSION, fresh)]

\* loadThreadId, page.tsx:130-132
loadThreadId(ls) == GetItem(ls, LS_THREAD)

\* a mutant: clearing the thread id leaves the persisted one in place
SaveThreadIdKeepsOld(ls, tid) ==
    IF ~Truthy(tid) THEN ls ELSE SetItem(ls, LS_THREAD, tid)

\* saveThreadId, page.tsx:134-137
saveThreadId(ls, tid) ==
    IF ~Truthy(tid) THEN RemoveItem(ls, LS_THREAD) ELSE SetItem(ls, LS_THREAD, tid)

\* JSON.stringify of one object: properties whose value is undefined are left out
JsonOfObject(o) == [k \in {j \in DOMAIN o : o[j] # Undef} |-> o[k]]

\* JSON.stringify(messages): the text that parses to the array of the serialized messages
JSONstringify(msgs) == JsonText([i \in DOMAIN msgs |-> JsonOfObject(msgs[i])])

\* JSON.parse(text): ok with the value, or the SyntaxError it throws
JSONparse(text) ==
    CASE "json" \in DOMAIN text -> [ok |-> TRUE, value |-> text.json]
      [] "jsonValue" \in DOMAIN text -> [ok |-> TRUE, value |-> text.jsonValue]
      [] OTHER -> [ok |-> FALSE, value |-> Undef]

\* loadMessages, page.tsx:139-146
loadMessages(ls) ==
    LET raw == GetItem(ls, LS_MESSAGES)
    IN  IF Truthy(raw)
        THEN IF JSONparse(raw).ok THEN JSONparse(raw).value ELSE <<>>
        ELSE <<>>

\* a mutant: the log is never written
SaveMessagesNoWrite(ls, msgs) == ls

\* saveMessages, page.tsx:148-154
saveMessages(ls, msgs) == SetItem(ls, LS_MESSAGES, JSONstringify(msgs))

\* loadGameId, page.tsx:156-163
loadGameId(ls) ==
    LET existing == GetItem(ls, LS_GAME_ID)
        def == Str(<<"valheim">>)
    IN  IF Truthy(existing)
        THEN [value |-> existing, ls |-> ls]
        ELSE [value |-> def, ls |-> SetItem(ls, LS_GAME_ID, def)]

(***************************************************************************)
(* Spoiler snapping, page.tsx:86-100.                                      *)
(***************************************************************************)
SPOILER_SNAP_POINTS == <<0, 33, 66, 100>>

Abs(n) == IF n < 0 THEN -n ELSE n
Min(a, b) == IF a < b THEN a ELSE b
Max(a, b) == IF a < b THEN b ELSE a

\* the loop of page.tsx:92-98 from snap point i on; dist < 0 stands for +Infinity
RECURSIVE SnapLoop(_, _, _, _)
SnapLoop(clamped, i, best, dist) ==
    IF i > Len(SPOILER_SNAP_POINTS)
    THEN best
    ELSE LET p == SPOILER_SNAP_POINTS[i]
             d == Abs(clamped - p)
         IN  IF dist < 0 \/ d < dist
             THEN SnapLoop(clamped, i + 1, p, d)
             ELSE SnapLoop(clamped, i + 1, best, dist)

\* a mutant: of two snap points equally near, the later one wins
SnapLaterWinsTies(v) ==
    LET clamped == Max(0, Min(100, v))
        points == {SPOILER_SNAP_POINTS[i] : i \in DOMAIN SPOILER_SNAP_POINTS}
    IN  CHOOSE p \in points :
           \A q \in points :
              \/ Abs(clamped - p) < Abs(clamped - q)
              \/ Abs(clamped - p) = Abs(clamped - q) /\ p >= q

\* snapSpoilerLevel, page.tsx:88-100
snapSpoilerLevel(v) == SnapLoop(Max(0, Min(100, v)), 1, 0, -1)

(***************************************************************************)
(* Sources, page.tsx:165-186.                                              *)
(***************************************************************************)
\* s.f?.trim() for a source property that is a text or missing
TrimmedProp(s, f) ==
    IF Get(s, f) \in {Undef, Null} THEN Undef ELSE Str(Trim(Get(s, f).v))

SourceFieldOrder == <<"title", "url", "source", "chunk_id", "author", "license_name", "license_url">>

\* the text of JSON.stringify(s): its properties in declaration order
RECURSIVE StringifySourceFrom(_, _)
StringifySourceFrom(s, i) ==
    IF i > Len(SourceFieldOrder)
    THEN <<"}">>
    ELSE LET f == SourceFieldOrder[i]
         IN  IF f \in DOMAIN s /\ s[f] # Undef
             THEN (IF s[f] = Null
                   THEN <<"\"", f, "\":null,">>
                   ELSE <<"\"", f, "\":\"">> \o s[f].v \o <<"\",">>)
                  \o StringifySourceFrom(s, i + 1)
             ELSE StringifySourceFrom(s, i + 1)

StringifySource(s) == Str(<<"{">> \o StringifySourceFrom(s, 1))

\* a mutant: the title wins over the url
SourceKeyTitleFirst(s) ==
    CASE Truthy(TrimmedProp(s, "title")) -> TrimmedProp(s, "title")
      [] Truthy(TrimmedProp(s, "url")) -> TrimmedProp(s, "url")
      [] Truthy(TrimmedProp(s, "source")) -> TrimmedProp(s, "source")
      [] Truthy(TrimmedProp(s, "chunk_id")) -> TrimmedProp(s, "chunk_id")
      [] OTHER -> StringifySource(s)

\* sourceKey, page.tsx:165-173
sourceKey(s) ==
    CASE Truthy(TrimmedProp(s, "url")) -> TrimmedProp(s, "url")
      [] Truthy(TrimmedProp(s, "title")) -> TrimmedProp(s, "title")
      [] Truthy(TrimmedProp(s, "source")) -> TrimmedProp(s, "source")
      [] Truthy(TrimmedProp(s, "chunk_id")) -> TrimmedProp(s, "chunk_id")
      [] OTHER -> StringifySource(s)

\* the loop of page.tsx:181-184 over sources[i..]; kept are the map's values in insertion order
RECURSIVE DedupeLoop(_, _, _)
DedupeLoop(sources, i, kept) ==
    IF i > Len(sources)
    THEN kept
    ELSE IF \E j \in DOMAIN kept : sourceKey(kept[j]) = sourceKey(sources[i])
         THEN DedupeLoop(sources, i + 1, kept)
         ELSE DedupeLoop(sources, i + 1, Append(kept, sources[i]))

\* a mutant: every record is kept
DedupeSourcesKeepsAll(sources) == sources

\* dedupeSources, page.tsx:179-186
dedupeSources(sources) == DedupeLoop(sources, 1, <<>>)

\* Array.prototype.slice(0, n)
Slice0(a, n) == SubSeq(a, 1, Min(n, Len(a)))

\* the cap of page.tsx:374 (and of the detail view, page.tsx:318)
DetailCap == 8
\* the cap of the inline view, page.tsx:483
InlineCap == 5

(***************************************************************************)
(* The answer gateway, api.ts.                                             *)
(***************************************************************************)
\* base.body === undefined, api.ts:60
BodyUndefined(base) == Get(base, "body") = Undef

\* api.ts:38-41: the err instanceof Error branch
NormalizeErrorInstance(base, e) ==
    IF "error" \in DOMAIN e
    THEN LET n == IF Truthy(Prop(e, "name")) THEN Prop(e, "name") ELSE base["name"]
             m == IF Truthy(Prop(e, "message")) THEN Prop(e, "message") ELSE base["message"]
         IN  Put(Put(base, "name", n), "message", m)
    ELSE base

\* api.ts:52-58: status, statusText and body promoted from e.context
NormalizeContext(base, ctx) ==
    IF TypeOf(ctx) = "object" /\ ctx # Null
    THEN LET b1 == IF TypeOf(Prop(ctx, "status")) = "number"
                   THEN Put(base, "status", Prop(ctx, "status")) ELSE base
             b2 == IF TypeOf(Prop(ctx, "statusText")) = "string"
                   THEN Put(b1, "statusText", Prop(ctx, "statusText")) ELSE b1
         IN  IF ctx.t = "object" /\ "body" \in DOMAIN ctx.f
             THEN Put(b2, "body", ctx.f["body"]) ELSE b2
    ELSE base

\* api.ts:43-61: the typeof err === "object" && err !== null branch
NormalizeObject(base, e) ==
    IF TypeOf(e) = "object" /\ e # Null
    THEN LET b1 == IF TypeOf(Prop(e, "name")) = "string"
                   THEN Put(base, "name", Prop(e, "name")) ELSE base
             b2 == IF TypeOf(Prop(e, "message")) = "string"
                   THEN Put(b1, "message", Prop(e, "message")) ELSE b1
             b3 == IF TypeOf(Prop(e, "status")) = "number"
                   THEN Put(b2, "status", Prop(e, "status")) ELSE b2
             b4 == NormalizeContext(b3, Prop(e, "context"))
         IN  IF BodyUndefined(b4) THEN Put(b4, "body", e) ELSE b4
    ELSE base

\* normalizeSupabaseFunctionError, api.ts:32-64
normalizeSupabaseFunctionError(e) ==
    LET base == [name |-> Str(<<"RagApiError">>), message |-> Str(<<"Request failed">>)]
    IN  Obj(NormalizeObject(NormalizeErrorInstance(base, e), e))

\* a mutant: the thread id is sent whenever it is present
BuildBodyAnyThread(req) ==
    LET body == [query |-> req.query, session_id |-> req.sessionId,
                 spoilerLevel |-> req.spoilerLevel]
    IN  IF Truthy(req.threadId) THEN Put(body, "thread_id", req.threadId) ELSE body

\* the request body of ragAnswer, api.ts:80-98 (matchCount, docFilter and developerMode
\* are never passed by onAsk, page.tsx:356-361)
BuildBody(req) ==
    LET body == [query |-> req.query, session_id |-> req.sessionId,
                 spoilerLevel |-> req.spoilerLevel]
    IN  IF Truthy(req.threadId) /\ isValidUuid(req.threadId)
        THEN Put(body, "thread_id", req.threadId)
        ELSE body

RagError(message, data) ==
    Obj([name |-> Str(<<"RagApiError">>), message |-> Str(<<message>>),
         status |-> Num(500), body |-> data])

\* a mutant: the identifiers of the response are not checked
SettleUnchecked(data, error) ==
    CASE Truthy(error) -> [ok |-> FALSE, value |-> normalizeSupabaseFunctionError(error)]
      [] ~Truthy(data) \/ TypeOf(data) # "object" ->
            [ok |-> FALSE, value |-> RagError("Invalid response payload", data)]
      [] OTHER -> [ok |-> TRUE, value |-> data]

\* ragAnswer after the await, api.ts:100-127, on { data, error } of supabase.functions.invoke:
\* ok with the value returned, or not ok with the value thrown
Settle(data, error) ==
    CASE Truthy(error) -> [ok |-> FALSE, value |-> normalizeSupabaseFunctionError(error)]
      [] ~Truthy(data) \/ TypeOf(data) # "object" ->
            [ok |-> FALSE, value |-> RagError("Invalid response payload", data)]
      [] ~isValidUuid(Prop(data, "session_id")) \/ ~isValidUuid(Prop(data, "thread_id")) ->
            [ok |-> FALSE,
             value |-> RagError("Backend response missing session_id/thread_id", data)]
      [] OTHER -> [ok |-> TRUE, value |-> data]

(***************************************************************************)
(* What the remote service and the transport can answer.                   *)
(***************************************************************************)
SessionA == Str(UuidText("a", "4", "8"))
SessionB == Str(UuidText("B", "1", "b"))
ThreadA == Str(UuidText("1", "4", "9"))
ThreadB == Str(UuidText("2", "5", "A"))
\* 36 characters in the right groups, but version 6
BadVersionId == Str(UuidText("c", "6", "8"))
\* the right version, but variant c
BadVariantId == Str(UuidText("d", "4", "c"))
Text(tok) == Str(<<tok>>)

WikiSource == [title |-> Text("Wiki"), url |-> Str(<<"h", "/", "x">>)]
\* the same url with surrounding blanks and another title: the same key
WikiSourceAgain == [title |-> Text("Wiki 2"), url |-> Str(<<" ", "h", "/", "x", " ">>)]
TitleSource == [title |-> Text("b"), url |-> Str(<<" ">>)]
BareSource == [author |-> Text("n")]
DigitToken == <<"1", "2", "3", "4", "5", "6", "7", "8", "9", "10", "11", "12">>
NumberedSource(i) == [url |-> Str(<<"u", DigitToken[i]>>), title |-> Text("Doc")]

\* more distinct sources than the detail view shows
ManySources == [i \in 1..(DetailCap + 1) |-> NumberedSource(i)]

Answer(sid, tid, fields) ==
    Obj([k \in {"ok", "session_id", "thread_id"} \cup DOMAIN fields |->
            CASE k = "ok" -> Bool(TRUE)
              [] k = "session_id" -> sid
              [] k = "thread_id" -> tid
              [] OTHER -> fields[k]])

\* responses that carry two well-formed identifiers
GoodAnswer ==
    Answer(SessionA, ThreadA,
           [answer |-> Text("Near the shore."),
            sources |-> Arr(<<WikiSource, WikiSourceAgain, TitleSource, BareSource,
                              TitleSource>>),
            interaction_id |-> Text("i1")])

\* the session id rotated by the server, no answer text, a null interaction id
RotatedAnswer ==
    Answer(SessionB, ThreadB, [sources |-> Arr(ManySources), interaction_id |-> Null])

\* objects whose session_id or thread_id is missing or malformed
NoThreadAnswer ==
    Obj([ok |-> Bool(TRUE), session_id |-> SessionA, answer |-> Text("Near the shore.")])

BadSessionAnswer == Answer(BadVersionId, ThreadA, [answer |-> Text("x")])

BadThreadAnswer == Answer(SessionA, BadVariantId, EmptyObj)

\* the error member of what supabase.functions.invoke resolves to, when it fails
HttpError ==
    ErrorObj([name |-> Text("FunctionsHttpError"),
              message |-> Text("Edge Function returned a non-2xx status code"),
              context |-> Obj([status |-> Num(429), statusText |-> Text("Too Many Requests"),
                               body |-> Text("stream")])])

PlainError == Obj([status |-> Num(503)])

Resolved(d) == [data |-> d, error |-> Null]
Failed(e) == [data |-> Null, error |-> e]

\* { data, error } as supabase.functions.invoke can resolve it
OutcomeList ==
    <<Resolved(GoodAnswer), Resolved(RotatedAnswer),
      Resolved(NoThreadAnswer), Resolved(BadSessionAnswer), Resolved(BadThreadAnswer),
      Resolved(Null), Resolved(Text("<html>")),
      Failed(HttpError), Failed(PlainError)>>

Outcomes == DOMAIN OutcomeList

(***************************************************************************)
(* Home, page.tsx:275-389.                                                 *)
(***************************************************************************)
NoCall == [t |-> "none"]

\* x ?? d
Nullish(x, d) == IF x = Undef \/ x = Null THEN d ELSE x

GameIds == {Text("valheim"), Text("starrupture")}

\* what the user can have typed into the textarea
Queries == {Str(<<" ", "\n">>), Str(<<" ", "a", " ">>)}

\* a raw position of the slider
RawSpoilerValues == {84}

\* the useState initial values, page.tsx:278-291
HomeInitial ==
    /\ sessionId' = Str(<<>>)
    /\ threadId' = Null
    /\ gameId' = Text("valheim")
    /\ spoilerLevel' = 33
    /\ query' = Str(<<>>)
    /\ loading' = FALSE
    /\ err' = Null
    /\ messages' = <<>>
    /\ sourcesForMessageId' = Null

Op(name, arg) == [op |-> name, arg |-> arg]

\* what the browser holds under LS_THREAD when the page is first opened: nothing, the
\* thread of an earlier visit, or a text that is no UUID
StoredThreadIds == {Null, ThreadA, BadVersionId}

Init ==
    /\ page = "home"
    /\ loaded = FALSE
    /\ sessionId = Str(<<>>)
    /\ threadId = Null
    /\ gameId = Text("valheim")
    /\ spoilerLevel = 33
    /\ query = Str(<<>>)
    /\ loading = FALSE
    /\ err = Null
    /\ messages = <<>>
    /\ sourcesForMessageId = Null
    /\ \E tid \in StoredThreadIds :
          localStorage = [k \in LS_KEYS |-> IF k = LS_THREAD THEN tid ELSE Null]
    /\ pending = NoCall
    /\ stale = <<>>
    /\ nSent = 0
    /\ nextId = 0
    /\ clockReads = 0
    /\ lastOp = Op("init", 0)

\* the initial load effect, page.tsx:295-307
LoadEffect ==
    /\ page = "home"
    /\ ~loaded
    /\ \E fresh \in NewSessionIds :
          LET sid == getOrCreateSessionId(localStorage, fresh)
              gid == loadGameId(sid.ls)
          IN  /\ sessionId' = sid.value
              /\ threadId' = loadThreadId(sid.ls)
              /\ messages' = loadMessages(sid.ls)
              /\ gameId' = gid.value
              /\ localStorage' = gid.ls
    /\ loaded' = TRUE
    /\ lastOp' = Op("load", 0)
    /\ UNCHANGED <<page, spoilerLevel, query, loading, err, sourcesForMessageId, pending,
                   stale, nSent, nextId, clockReads>>

\* the textarea's onChange, page.tsx:629
SetQuery(text) ==
    /\ page = "home"
    /\ query' = text
    /\ UNCHANGED <<lastOp, page, loaded, sessionId, threadId, gameId, spoilerLevel, loading, err,
                   messages, sourcesForMessageId, localStorage, pending, stale, nSent,
                   nextId, clockReads>>

\* the slider's onValueChange, page.tsx:459
SetSpoiler(raw) ==
    /\ page = "home"
    /\ spoilerLevel' = snapSpoilerLevel(raw)
    /\ UNCHANGED <<lastOp, page, loaded, sessionId, threadId, gameId, query, loading, err,
                   messages, sourcesForMessageId, localStorage, pending, stale, nSent,
                   nextId, clockReads>>

\* the Details button of an assistant message, page.tsx:554-565, and the two
\* close buttons of the dialog, page.tsx:684 and 701
SetSourcesForMessageId(id) ==
    /\ page = "home"
    /\ sourcesForMessageId' = id
    /\ UNCHANGED <<lastOp, page, loaded, sessionId, threadId, gameId, spoilerLevel, query, loading,
                   err, messages, localStorage, pending, stale, nSent, nextId, clockReads>>

\* the messages whose Details button is rendered (msgSources non-empty, page.tsx:483, 554)
DetailIds ==
    {messages[i]["id"] : i \in {j \in DOMAIN messages :
        /\ messages[j]["role"] = Text("assistant")
        /\ Slice0(dedupeSources(Nullish(Get(messages[j], "sources"), Arr(<<>>)).a),
                  InlineCap) # <<>>}}

\* resetThread, page.tsx:321-331
resetThread ==
    /\ page = "home"
    /\ threadId' = Null
    /\ messages' = <<>>
    /\ localStorage' = saveMessages(saveThreadId(localStorage, Null), <<>>)
    /\ err' = Null
    /\ query' = Str(<<>>)
    /\ sourcesForMessageId' = Null
    /\ lastOp' = Op("resetThread", 0)
    /\ UNCHANGED <<page, loaded, sessionId, gameId, spoilerLevel, loading, pending, stale,
                   nSent, nextId, clockReads>>

\* a mutant: a submit is accepted while an ask is pending
AskAcceptedIgnoringLoading(q, sid, ld) == Truthy(q) /\ Truthy(sid)

\* a mutant: a submit is accepted before the session id is loaded
AskAcceptedWithoutSession(q, sid, ld) == Truthy(q) /\ ~ld

\* a mutant: a submit with a blank query is accepted
AskAcceptedBlank(q, sid, ld) == Truthy(sid) /\ ~ld

\* the entry guard of onAsk, page.tsx:335, negated: the ask goes on
AskAccepted(q, sid, ld) == ~(~Truthy(q) \/ ~Truthy(sid) \/ ld)

\* the argument onAsk passes to ragAnswer, page.tsx:356-361
AskRequest(q) ==
    [sessionId |-> sessionId, threadId |-> Nullish(threadId, Undef), query |-> q,
     spoilerLevel |-> Num(spoilerLevel)]

\* userMsg, page.tsx:340-345
UserMessage(q, id, t) ==
    [id |-> id, role |-> Text("user"), content |-> q, createdAt |-> t]

\* onAsk up to its await, page.tsx:333-361
onAsk ==
    /\ page = "home"
    /\ LET q == Str(Trim(query.v))
       IN  IF AskAccepted(q, sessionId, loading)
           THEN /\ loading \/ nSent < MaxAsks   \* MaxAsks asks are begun from Idle
                /\ LET next == Append(messages,
                                       UserMessage(q, RandomUuid(nextId + 1),
                                                   ClockReading(clockReads + 1)))
                   IN  /\ messages' = next
                       /\ localStorage' = saveMessages(localStorage, next)
                /\ clockReads' = clockReads + 1
                /\ loading' = TRUE
                /\ err' = Null
                /\ query' = Str(<<>>)
                /\ pending' = [body |-> BuildBody(AskRequest(q))]
                /\ nSent' = nSent + 1
                /\ nextId' = nextId + 1
                /\ lastOp' = Op("ask", 0)
                /\ UNCHANGED <<page, loaded, sessionId, threadId, gameId, spoilerLevel,
                               sourcesForMessageId, stale>>
           ELSE /\ lastOp' = Op("askRejected", 0)
                /\ UNCHANGED <<page, loaded, homeVars, localStorage, pending, stale, nSent,
                               nextId, clockReads>>

\* what ragAnswer makes of outcome n: ok with the value returned, or the value thrown
Settled(n) == Settle(OutcomeList[n].data, OutcomeList[n].error)

\* the stored sources without the cap of page.tsx:374: every deduplicated source is kept
StoredSourcesUncapped(data) ==
    Arr(dedupeSources(Nullish(Prop(data, "sources"), Arr(<<>>)).a))

\* the sources stored with the assistant message, page.tsx:374
StoredSources(data) ==
    Arr(Slice0(dedupeSources(Nullish(Prop(data, "sources"), Arr(<<>>)).a), DetailCap))

\* assistantMsg, page.tsx:369-376
AssistantMessage(data, id, t) ==
    [id |-> id, role |-> Text("assistant"),
     content |-> Nullish(Prop(data, "answer"), Str(<<>>)),
     createdAt |-> t,
     sources |-> StoredSources(data),
     interaction_id |-> Nullish(Prop(data, "interaction_id"), Undef)]

\* the value the catch clause hands to setErr, page.tsx:384-385
CaughtError(e) ==
    IF TypeOf(e) = "object" /\ e # Null
    THEN e
    ELSE Obj([name |-> Text("RagApiError"), message |-> Text("Unbekannter Fehler"),
              body |-> e])

\* a mutant: the identifiers of the response are not written to storage
AdoptIdsInMemoryOnly(ls, data) == ls

\* storage after page.tsx:364 and 367
AdoptIds(ls, data) ==
    saveThreadId(SetItem(ls, LS_SESSION, Prop(data, "session_id")), Prop(data, "thread_id"))

\* onAsk from its await on, when ragAnswer returns: page.tsx:363-382 and 387
AskSucceeds(n) ==
    /\ page = "home"
    /\ pending # NoCall
    /\ Settled(n).ok
    /\ LET data == Settled(n).value
       IN  /\ sessionId' = Prop(data, "session_id")
           /\ threadId' = Prop(data, "thread_id")
           /\ LET next == Append(messages,
                                  AssistantMessage(data, RandomUuid(nextId + 1),
                                                   ClockReading(clockReads + 1)))
              IN  /\ messages' = next
                  /\ localStorage' = saveMessages(AdoptIds(localStorage, data), next)
    /\ nextId' = nextId + 1
    /\ clockReads' = clockReads + 1
    /\ loading' = FALSE
    /\ pending' = NoCall
    /\ lastOp' = Op("success", n)
    /\ UNCHANGED <<page, loaded, gameId, spoilerLevel, query, err, sourcesForMessageId,
                   stale, nSent>>

\* a mutant: the failed ask leaves loading set
AskFailsKeepsLoading(n) ==
    /\ page = "home"
    /\ pending # NoCall
    /\ ~Settled(n).ok
    /\ err' = CaughtError(Settled(n).value)
    /\ loading' = loading
    /\ pending' = NoCall
    /\ lastOp' = Op("failed", n)
    /\ UNCHANGED <<page, loaded, sessionId, threadId, gameId, spoilerLevel, query, messages,
                   sourcesForMessageId, localStorage, stale, nSent, nextId, clockReads>>

\* onAsk from its await on, when ragAnswer throws: page.tsx:383-388
AskFails(n) ==
    /\ page = "home"
    /\ pending # NoCall
    /\ ~Settled(n).ok
    /\ err' = CaughtError(Settled(n).value)
    /\ loading' = FALSE
    /\ pending' = NoCall
    /\ lastOp' = Op("failed", n)
    /\ UNCHANGED <<page, loaded, sessionId, threadId, gameId, spoilerLevel, query, messages,
                   sourcesForMessageId, localStorage, stale, nSent, nextId, clockReads>>

(***************************************************************************)
(* Navigation and MenuPage, menu/page.tsx:32-60.                           *)
(***************************************************************************)
\* the ids of GAMES, menu/page.tsx:27-30
GAMES == <<Text("valheim"), Text("starrupture")>>

\* the Menu button of Home, page.tsx:421: Home is unmounted, a call it awaits goes on
OpenMenu ==
    /\ page = "home"
    /\ page' = "menu"
    /\ loaded' = FALSE
    /\ HomeInitial
    /\ stale' = IF pending = NoCall
                THEN stale
                ELSE Append(stale, [msgs |-> messages])
    /\ pending' = NoCall
    /\ lastOp' = Op("openMenu", 0)
    /\ UNCHANGED <<localStorage, nSent, nextId, clockReads>>

\* the back button of MenuPage, menu/page.tsx:71: Home is mounted anew
CloseMenu ==
    /\ page = "menu"
    /\ page' = "home"
    /\ lastOp' = Op("closeMenu", 0)
    /\ UNCHANGED <<loaded, homeVars, localStorage, pending, stale, nSent, nextId, clockReads>>

\* a mutant: the chat is cleared only for a game never selected before
ResetNeededNever(ls, nextGame) == FALSE

\* the test of menu/page.tsx:51-52
ResetNeeded(ls, nextGame) ==
    LET current == ToLowerCase(Nullish(GetItem(ls, LS_GAME_ID), Str(<<>>)).v)
    IN  current # ToLowerCase(nextGame.v)

\* resetThreadAndMessages, menu/page.tsx:45-48
resetThreadAndMessages(ls) == RemoveItem(RemoveItem(ls, LS_THREAD), LS_MESSAGES)

\* onSelectGame, menu/page.tsx:50-60
onSelectGame(nextGame) ==
    /\ page = "menu"
    /\ localStorage' =
          SetItem(IF ResetNeeded(localStorage, nextGame)
                  THEN resetThreadAndMessages(localStorage)
                  ELSE localStorage,
                  LS_GAME_ID, nextGame)
    /\ page' = "home"
    /\ lastOp' = Op("selectGame", IF ResetNeeded(localStorage, nextGame) THEN 1 ELSE 0)
    /\ UNCHANGED <<loaded, homeVars, pending, stale, nSent, nextId, clockReads>>

\* a full reload of the document: every awaited call dies with its page, the chat page
\* is mounted again where the error screen was
Reload ==
    /\ page' = IF page = "error" THEN "home" ELSE page
    /\ loaded' = FALSE
    /\ HomeInitial
    /\ pending' = NoCall
    /\ stale' = <<>>
    /\ lastOp' = Op("reload", 0)
    /\ UNCHANGED <<localStorage, nSent, nextId, clockReads>>

Without(seq, i) == SubSeq(seq, 1, i - 1) \o SubSeq(seq, i + 1, Len(seq))

\* page.tsx:363-382 run by an unmounted Home: its setters change no mounted state, the
\* storage writes take place; whether React still runs the updater of page.tsx:378-382
\* (and with it saveMessages) for an unmounted component is open: updaterRuns
StaleAskSucceeds(i, n, updaterRuns) ==
    /\ i \in DOMAIN stale
    /\ Settled(n).ok
    /\ LET data == Settled(n).value
           next == Append(stale[i].msgs,
                          AssistantMessage(data, RandomUuid(nextId + 1),
                                           ClockReading(clockReads + 1)))
       IN  localStorage' = IF updaterRuns
                           THEN saveMessages(AdoptIds(localStorage, data), next)
                           ELSE AdoptIds(localStorage, data)
    /\ nextId' = nextId + 1
    /\ clockReads' = clockReads + 1
    /\ stale' = Without(stale, i)
    /\ lastOp' = Op("staleSuccess", n)
    /\ UNCHANGED <<page, loaded, homeVars, pending, nSent>>

\* page.tsx:383-388 run by an unmounted Home: nothing is left to change
StaleAskFails(i, n) ==
    /\ i \in DOMAIN stale
    /\ ~Settled(n).ok
    /\ stale' = Without(stale, i)
    /\ lastOp' = Op("staleFailed", n)
    /\ UNCHANGED <<page, loaded, homeVars, localStorage, pending, nSent, nextId, clockReads>>

Next ==
    \/ LoadEffect
    \/ \E text \in Queries : SetQuery(text)
    \/ \E raw \in RawSpoilerValues : SetSpoiler(raw)
    \/ \E id \in DetailIds \cup {Null} : SetSourcesForMessageId(id)
    \/ resetThread
    \/ onAsk
    \/ \E n \in Outcomes : AskSucceeds(n)
    \/ \E n \in Outcomes : AskFails(n)
    \/ OpenMenu
    \/ CloseMenu
    \/ \E i \in 1..Len(GAMES) : onSelectGame(GAMES[i])
    \/ Reload
    \/ \E i \in DOMAIN stale, n \in Outcomes, b \in BOOLEAN : StaleAskSucceeds(i, n, b)
    \/ \E i \in DOMAIN stale, n \in Outcomes : StaleAskFails(i, n)

Spec == Init /\ [][Next]_vars

(***************************************************************************)
(* Storage that refuses writes: localStorage.setItem throws (the quota is   *)
(* exceeded, or the browser grants none); getItem and removeItem go on      *)
(* working.  Each write fails or not on its own.                            *)
(***************************************************************************)
\* what localStorage.setItem throws
QuotaError ==
    ErrorObj([name |-> Text("QuotaExceededError"),
              message |-> Text("The quota has been exceeded.")])

\* the load effect, page.tsx:295-307, when the setItem of getOrCreateSessionId
\* (page.tsx:126) or of loadGameId (page.tsx:161) throws: the effect is left with no
\* setter called, or with the session id set only, and the error is caught by nobody:
\* the page is replaced by the error screen
LoadEffectThrows ==
    /\ page = "home"
    /\ ~loaded
    /\ ~Truthy(GetItem(localStorage, LS_SESSION)) \/ ~Truthy(GetItem(localStorage, LS_GAME_ID))
    /\ page' = "error"
    /\ HomeInitial
    /\ lastOp' = Op("loadThrows", 0)
    /\ UNCHANGED <<loaded, localStorage, pending, stale, nSent, nextId, clockReads>>

\* resetThread, page.tsx:321-331, when the setItem of saveMessages throws and is
\* swallowed (page.tsx:149-153); removeItem does not throw
resetThreadUnsaved ==
    /\ page = "home"
    /\ threadId' = Null
    /\ messages' = <<>>
    /\ localStorage' = saveThreadId(localStorage, Null)
    /\ err' = Null
    /\ query' = Str(<<>>)
    /\ sourcesForMessageId' = Null
    /\ lastOp' = Op("resetThread", 0)
    /\ UNCHANGED <<page, loaded, sessionId, gameId, spoilerLevel, loading, pending, stale,
                   nSent, nextId, clockReads>>

\* onAsk up to its await, page.tsx:333-361, when the setItem of saveMessages throws
\* and is swallowed
onAskUnsaved ==
    /\ page = "home"
    /\ LET q == Str(Trim(query.v))
       IN  /\ AskAccepted(q, sessionId, loading)
           /\ loading \/ nSent < MaxAsks
           /\ messages' = Append(messages,
                                 UserMessage(q, RandomUuid(nextId + 1),
                                             ClockReading(clockReads + 1)))
           /\ pending' = [body |-> BuildBody(AskRequest(q))]
    /\ clockReads' = clockReads + 1
    /\ loading' = TRUE
    /\ err' = Null
    /\ query' = Str(<<>>)
    /\ nSent' = nSent + 1
    /\ nextId' = nextId + 1
    /\ lastOp' = Op("ask", 0)
    /\ UNCHANGED <<page, loaded, sessionId, threadId, gameId, spoilerLevel,
                   sourcesForMessageId, localStorage, stale>>

\* onAsk from its await on, when ragAnswer returns and the setItem of page.tsx:364
\* throws: setSessionId has run, the catch clause gets the error, page.tsx:363-364, 383-388
SessionWriteThrows(n) ==
    /\ page = "home"
    /\ pending # NoCall
    /\ Settled(n).ok
    /\ sessionId' = Prop(Settled(n).value, "session_id")
    /\ err' = CaughtError(QuotaError)
    /\ loading' = FALSE
    /\ pending' = NoCall
    /\ lastOp' = Op("failed", n)
    /\ UNCHANGED <<page, loaded, threadId, gameId, spoilerLevel, query, messages,
                   sourcesForMessageId, localStorage, stale, nSent, nextId, clockReads>>

\* the same when the setItem of saveThreadId (page.tsx:136) throws: the session id is
\* adopted in memory and in storage, the thread id in memory only, page.tsx:363-367, 383-388
ThreadWriteThrows(n) ==
    /\ page = "home"
    /\ pending # NoCall
    /\ Settled(n).ok
    /\ sessionId' = Prop(Settled(n).value, "session_id")
    /\ threadId' = Prop(Settled(n).value, "thread_id")
    /\ localStorage' = SetItem(localStorage, LS_SESSION, Prop(Settled(n).value, "session_id"))
    /\ err' = CaughtError(QuotaError)
    /\ loading' = FALSE
    /\ pending' = NoCall
    /\ lastOp' = Op("failed", n)
    /\ UNCHANGED <<page, loaded, gameId, spoilerLevel, query, messages,
                   sourcesForMessageId, stale, nSent, nextId, clockReads>>

\* the same when only the setItem of saveMessages throws and is swallowed:
\* page.tsx:363-382 and 387
AskSucceedsUnsaved(n) ==
    /\ page = "home"
    /\ pending # NoCall
    /\ Settled(n).ok
    /\ LET data == Settled(n).value
       IN  /\ sessionId' = Prop(data, "session_id")
           /\ threadId' = Prop(data, "thread_id")
           /\ messages' = Append(messages,
                                 AssistantMessage(data, RandomUuid(nextId + 1),
                                                  ClockReading(clockReads + 1)))
           /\ localStorage' = AdoptIds(localStorage, data)
    /\ nextId' = nextId + 1
    /\ clockReads' = clockReads + 1
    /\ loading' = FALSE
    /\ pending' = NoCall
    /\ lastOp' = Op("success", n)
    /\ UNCHANGED <<page, loaded, gameId, spoilerLevel, query, err, sourcesForMessageId,
                   stale, nSent>>

NextQuota ==
    \/ Next
    \/ LoadEffectThrows
    \/ resetThreadUnsaved
    \/ onAskUnsaved
    \/ \E n \in Outcomes : SessionWriteThrows(n)
    \/ \E n \in Outcomes : ThreadWriteThrows(n)
    \/ \E n \in Outcomes : AskSucceedsUnsaved(n)

SpecQuota == Init /\ [][NextQuota]_vars

\* the promise of supabase.functions.invoke settles and onAsk runs on from its await,
\* page.tsx:356-388, whichever way it goes
ResponseArrives ==
    \/ \E n \in Outcomes : AskFails(n)
    \/ \E n \in Outcomes : SessionWriteThrows(n)
    \/ \E n \in Outcomes : ThreadWriteThrows(n)
    \/ \E n \in Outcomes : AskSucceedsUnsaved(n)
    \/ \E n \in Outcomes : AskSucceeds(n)

\* the page with a remote call that always settles in the end
SpecLive == Init /\ [][NextQuota]_vars /\ WF_vars(ResponseArrives)

(***************************************************************************)
(* loadMessages on whatever text storage may hold, page.tsx:139-146.       *)
(***************************************************************************)
MaxLogLen == 3

SeqsUpTo(S, n) == UNION {[1..k -> S] : k \in 0..n}

\* messages as they are stored
SampleMessages ==
    {JsonOfObject(UserMessage(Text("a"), RandomUuid(1), ClockReading(1))),
     JsonOfObject(UserMessage(Text("b"), RandomUuid(3), ClockReading(3))),
     JsonOfObject(AssistantMessage(GoodAnswer, RandomUuid(2), ClockReading(2))),
     JsonOfObject(AssistantMessage(RotatedAnswer, RandomUuid(4), ClockReading(4)))}

\* texts that are the JSON of a list of messages
LogTexts == {JsonText(l) : l \in SeqsUpTo(SampleMessages, MaxLogLen)}

\* texts that JSON.parse accepts and that are the JSON of no list: null, {}, 5, "x", true
NonListTexts ==
    {JsonValueText(v) : v \in {Null, Obj(EmptyObj), Num(5), Text("x"), Bool(TRUE)}}

\* nothing stored, the empty text, a text that is no JSON
UnreadableTexts == {Null, Str(<<>>), GarbageText}

StoredLogTexts == LogTexts \cup NonListTexts \cup UnreadableTexts

InitLoad ==
    /\ page = "home"
    /\ loaded = FALSE
    /\ sessionId = Str(<<>>)
    /\ threadId = Null
    /\ gameId = Text("valheim")
    /\ spoilerLevel = 33
    /\ query = Str(<<>>)
    /\ loading = FALSE
    /\ err = Null
    /\ messages = <<>>
    /\ sourcesForMessageId = Null
    /\ \E text \in StoredLogTexts :
          localStorage = [k \in LS_KEYS |-> IF k = LS_MESSAGES THEN text ELSE Null]
    /\ pending = NoCall
    /\ stale = <<>>
    /\ nSent = 0
    /\ nextId = 0
    /\ clockReads = 0
    /\ lastOp = Op("init", 0)

\* const stored = loadMessages(); setMessages(stored), page.tsx:302-303
ReadLog ==
    /\ page = "home"
    /\ ~loaded
    /\ messages' = loadMessages(localStorage)
    /\ loaded' = TRUE
    /\ lastOp' = Op("readLog", 0)
    /\ UNCHANGED <<page, sessionId, threadId, gameId, spoilerLevel, query, loading, err,
                   sourcesForMessageId, localStorage, pending, stale, nSent, nextId,
                   clockReads>>

SpecLoad == InitLoad /\ [][ReadLog]_vars

(***************************************************************************)
(* dedupeSources on the source lists a response can carry, page.tsx:179-186.*)
(***************************************************************************)
MaxSources == 3

\* the title is the url of WikiSource: the same key
TitledAsWikiUrl == [title |-> Str(<<"h", "/", "x">>)]
\* the source field is the title of TitleSource: the same key
SourcedAsTitle == [source |-> Text("b"), title |-> Str(<<>>)]
ChunkSource == [chunk_id |-> Text("c"), url |-> Null, author |-> Text("n")]

SampleSources ==
    {WikiSource, WikiSourceAgain, TitleSource, BareSource, TitledAsWikiUrl, SourcedAsTitle,
     ChunkSource}

InitDedupe ==
    /\ page = "home"
    /\ loaded = TRUE
    /\ sessionId = SessionA
    /\ threadId = Null
    /\ gameId = Text("valheim")
    /\ spoilerLevel = 33
    /\ query = Str(<<>>)
    /\ loading = TRUE
    /\ err = Null
    /\ messages = <<>>
    /\ sourcesForMessageId = Null
    /\ localStorage = [k \in LS_KEYS |-> Null]
    \* data.sources of the response that arrives
    /\ \E l \in SeqsUpTo(SampleSources, MaxSources) : pending = [sources |-> l]
    /\ stale = <<>>
    /\ nSent = 1
    /\ nextId = 0
    /\ clockReads = 0
    /\ lastOp = Op("init", 0)

\* dedupeSources(data.sources ?? []), page.tsx:374; messages holds the list returned
Dedupe ==
    /\ lastOp.op = "init"
    /\ messages' = dedupeSources(pending.sources)
    /\ lastOp' = Op("dedupe", 0)
    /\ UNCHANGED <<page, loaded, sessionId, threadId, gameId, spoilerLevel, query, loading,
                   err, sourcesForMessageId, localStorage, pending, stale, nSent, nextId,
                   clockReads>>

SpecDedupe == InitDedupe /\ [][Dedupe]_vars

(***************************************************************************)
(* snapSpoilerLevel on raw numbers, page.tsx:88-100, beside the controller *)
(* that calls it from the slider, page.tsx:459.                            *)
(***************************************************************************)
\* how far below 0 and above 100 a raw number lies
MaxOvershoot == 5

\* the argument v of snapSpoilerLevel, page.tsx:88
RawInputs == (0 - MaxOvershoot) .. (100 + MaxOvershoot)

\* either the page as it is opened, or the function alone with a raw number at hand
InitSnap ==
    \/ Init
    \/ /\ page = "slider"
       /\ loaded = TRUE
       /\ sessionId = SessionA
       /\ threadId = Null
       /\ gameId = Text("valheim")
       /\ spoilerLevel = 33
       /\ query = Str(<<>>)
       /\ loading = FALSE
       /\ err = Null
       /\ messages = <<>>
       /\ sourcesForMessageId = Null
       /\ localStorage = [k \in LS_KEYS |-> Null]
       /\ \E v \in RawInputs : pending = [raw |-> v]
       /\ stale = <<>>
       /\ nSent = 0
       /\ nextId = 0
       /\ clockReads = 0
       /\ lastOp = Op("init", 0)

\* snapSpoilerLevel(v), page.tsx:88-100; spoilerLevel holds the number returned
ApplySnap ==
    /\ page = "slider"
    /\ lastOp.op = "init"
    /\ spoilerLevel' = snapSpoilerLevel(pending.raw)
    /\ lastOp' = Op("snap", 0)
    /\ UNCHANGED <<page, loaded, sessionId, threadId, gameId, query, loading, err, messages,
                   sourcesForMessageId, localStorage, pending, stale, nSent, nextId,
                   clockReads>>

\* snapSpoilerLevel applied to its own result
ApplySnapAgain ==
    /\ page = "slider"
    /\ lastOp.op = "snap"
    /\ spoilerLevel' = snapSpoilerLevel(spoilerLevel)
    /\ lastOp' = Op("snapAgain", 0)
    /\ UNCHANGED <<page, loaded, sessionId, threadId, gameId, query, loading, err, messages,
                   sourcesForMessageId, localStorage, pending, stale, nSent, nextId,
                   clockReads>>

NextSnap == Next \/ ApplySnap \/ ApplySnapAgain

SpecSnap == InitSnap /\ [][NextSnap]_vars

(***************************************************************************)
(* Properties of the Conversation Controller.                              *)
(***************************************************************************)
\* the number of user messages of a log
UserCount(msgs) == Cardinality({i \in DOMAIN msgs : msgs[i]["role"] = Text("user")})

\* the log as loadMessages reads it back from storage
PersistedLog == loadMessages(localStorage)

\* C1: while an ask is pending (loading is true) no step of the page, a submit
\* included, sends a request or appends a user message.
C1_SingleAskInFlight ==
    [][(page = "home" /\ loading)
          => (nSent' = nSent /\ UserCount(messages') <= UserCount(messages))]_vars

\* a submit with a filled-in query and a session id was turned down while the call
\* of the ask before it was pending
C1_Witness ==
    /\ lastOp.op = "askRejected"
    /\ loading
    /\ pending # NoCall
    /\ Truthy(Str(Trim(query.v)))
    /\ Truthy(sessionId)
    /\ nSent = 1
    /\ UserCount(messages) = 1

\* the outcomes by their kind: a response with two well-formed identifiers, an object
\* without them, a response that is no object, a failure of the transport
GoodOutcomes ==
    {n \in Outcomes : OutcomeList[n] \in {Resolved(GoodAnswer), Resolved(RotatedAnswer)}}
BadIdOutcomes ==
    {n \in Outcomes : OutcomeList[n] \in {Resolved(NoThreadAnswer), Resolved(BadSessionAnswer),
                                          Resolved(BadThreadAnswer)}}
NonObjectOutcomes ==
    {n \in Outcomes : OutcomeList[n] \in {Resolved(Null), Resolved(Text("<html>"))}}
TransportFailures ==
    {n \in Outcomes : OutcomeList[n] \in {Failed(HttpError), Failed(PlainError)}}

\* this step is the mounted page handling outcome n of the call it awaits
Settles(n) ==
    /\ page = "home"
    /\ pending # NoCall
    /\ pending' = NoCall
    /\ lastOp'.op \in {"success", "failed"}
    /\ lastOp'.arg = n

\* this step is a submit that goes on to call ragAnswer
Accepts ==
    /\ page = "home"
    /\ pending = NoCall
    /\ pending' # NoCall

\* the sources of a response, each dedup key kept once, none dropped
DedupedSources(data) == Arr(dedupeSources(Nullish(Prop(data, "sources"), Arr(<<>>)).a))

\* C2: an accepted ask appends the user message; when its response is an object with
\* well-formed session_id and thread_id, the assistant message is appended after it,
\* with content = answer, sources = the deduplicated sources of the response and the
\* interaction id of the response, and the session id and the thread id, in memory and
\* in storage, are those of the response.
C2_SuccessAddsAnswer ==
    [][/\ Accepts
          => /\ Len(messages') = Len(messages) + 1
             /\ SubSeq(messages', 1, Len(messages)) = messages
             /\ Last(messages')["role"] = Text("user")
             /\ Last(messages')["content"] = Str(Trim(query.v))
       /\ \A n \in GoodOutcomes :
             Settles(n)
                => LET data == OutcomeList[n].data
                       m == Last(messages')
                   IN  /\ Len(messages') = Len(messages) + 1
                       /\ SubSeq(messages', 1, Len(messages)) = messages
                       /\ m["role"] = Text("assistant")
                       /\ m["content"] = Nullish(Prop(data, "answer"), Str(<<>>))
                       /\ m["sources"] = DedupedSources(data)
                       /\ m["interaction_id"] = Nullish(Prop(data, "interaction_id"), Undef)
                       /\ sessionId' = Prop(data, "session_id")
                       /\ threadId' = Prop(data, "thread_id")
                       /\ GetItem(localStorage', LS_SESSION) = Prop(data, "session_id")
                       /\ GetItem(localStorage', LS_THREAD) = Prop(data, "thread_id")]_vars

\* C3: when an accepted ask fails (transport failure, non-object response, response
\* without valid identifiers) the error is recorded, loading becomes false, the log in
\* memory and in storage is left as it was (the user message stays, no assistant
\* message is appended), and session id and thread id are unchanged, in memory and in
\* storage.
C3_FailedAskKeepsQuestion ==
    [][\A n \in TransportFailures \cup NonObjectOutcomes \cup BadIdOutcomes :
          Settles(n)
             => /\ Truthy(err')
                /\ ~loading'
                /\ messages' = messages
                /\ localStorage' = localStorage
                /\ sessionId' = sessionId
                /\ threadId' = threadId]_vars

\* a failed ask has left its question as the last message of the log, in memory and in
\* storage
C3_Witness ==
    /\ lastOp.op = "failed"
    /\ ~loading
    /\ Truthy(err)
    /\ messages # <<>>
    /\ Last(messages)["role"] = Text("user")
    /\ PersistedLog = messages
    /\ UserCount(messages) = Len(messages)

\* the error value ragAnswer throws at api.ts:108-113 and 119-124
ThrownError(message, data) ==
    Obj([name |-> Text("RagApiError"), message |-> Text(message), status |-> Num(500),
         body |-> data])

\* C4: a response that is an object but whose session_id or thread_id is missing or
\* not well-formed makes the ask fail with message "Backend response missing
\* session_id/thread_id", status 500 and the raw response as body, and that error is
\* the one displayed, no assistant message being appended; a response that is no
\* object fails with message "Invalid response payload", status 500 and the raw
\* response as body.
C4_InvalidResponseErrors ==
    [][/\ \A n \in BadIdOutcomes :
             Settles(n)
                => /\ err' = ThrownError("Backend response missing session_id/thread_id",
                                         OutcomeList[n].data)
                   /\ messages' = messages
       /\ \A n \in NonObjectOutcomes :
             Settles(n)
                => /\ err' = ThrownError("Invalid response payload", OutcomeList[n].data)
                   /\ messages' = messages]_vars

\* the error of an object whose session_id has version digit 6 is displayed
C4_Witness ==
    /\ lastOp = Op("failed", 4)
    /\ OutcomeList[4] = Resolved(BadSessionAnswer)
    /\ err = ThrownError("Backend response missing session_id/thread_id", BadSessionAnswer)
    /\ UserCount(messages) = Len(messages)

\* the error of a response that is a text is displayed
C4_WitnessNonObject ==
    /\ lastOp = Op("failed", 7)
    /\ err = ThrownError("Invalid response payload", Text("<html>"))

\* C5: a submit whose trimmed query is empty, or made while the page holds no session
\* id (the load effect has not run yet), is a no-op: no message is appended, no request
\* is sent, and loading, error, input text, thread id and session id are unchanged.
C5_RejectedAskIsNoOp ==
    [][(onAsk /\ (~Truthy(Str(Trim(query.v))) \/ ~Truthy(sessionId)))
          => /\ messages' = messages
             /\ localStorage' = localStorage
             /\ nSent' = nSent
             /\ pending' = pending
             /\ loading' = loading
             /\ err' = err
             /\ query' = query
             /\ threadId' = threadId
             /\ sessionId' = sessionId]_vars

\* a filled-in query was submitted before the load effect had set the session id
C5_Witness ==
    /\ lastOp.op = "askRejected"
    /\ page = "home"
    /\ ~loaded
    /\ ~Truthy(sessionId)
    /\ Truthy(Str(Trim(query.v)))
    /\ ~loading
    /\ nSent = 0
    /\ messages = <<>>

\* a query of blanks only was submitted by a loaded page that is not sending
C5_WitnessBlankQuery ==
    /\ lastOp.op = "askRejected"
    /\ page = "home"
    /\ loaded
    /\ Truthy(sessionId)
    /\ Truthy(query)
    /\ ~Truthy(Str(Trim(query.v)))
    /\ ~loading
    /\ nSent = 0

\* C6: resetThread, in any state (sending or not, loaded or not), leaves the thread id
\* absent and the log empty, in memory and in storage, clears the displayed error and
\* the input text, and leaves the session id as it was, in memory and in storage.
C6_ResetThreadClears ==
    [][resetThread
          => /\ threadId' = Null
             /\ GetItem(localStorage', LS_THREAD) = Null
             /\ messages' = <<>>
             /\ loadMessages(localStorage') = <<>>
             /\ err' = Null
             /\ query' = Str(<<>>)
             /\ sessionId' = sessionId
             /\ GetItem(localStorage', LS_SESSION) = GetItem(localStorage, LS_SESSION)]_vars

\* the conversation was reset while the answer to its question was awaited
C6_Witness ==
    /\ lastOp.op = "resetThread"
    /\ loading
    /\ pending # NoCall
    /\ "thread_id" \in DOMAIN pending.body
    /\ threadId = Null
    /\ GetItem(localStorage, LS_THREAD) = Null
    /\ messages = <<>>
    /\ GetItem(localStorage, LS_MESSAGES) = JSONstringify(<<>>)
    /\ Truthy(sessionId)
    /\ GetItem(localStorage, LS_SESSION) = sessionId

\* storage holds no thread id and no message
StoredChatEmpty ==
    /\ loadThreadId(localStorage) = Null
    /\ loadMessages(localStorage) = <<>>

\* what C7 asks of one step
GameSwitchStep ==
    /\ \A g \in GameIds :
          (onSelectGame(g) /\ GetItem(localStorage, LS_GAME_ID) # g)
             => /\ GetItem(localStorage', LS_THREAD) = Null
                /\ GetItem(localStorage', LS_MESSAGES) = Null
                /\ GetItem(localStorage', LS_GAME_ID) = g
                /\ StoredChatEmpty'
    /\ (page = "home" /\ ~loaded /\ StoredChatEmpty /\ page' = "home" /\ ~loaded')
          => StoredChatEmpty'
    /\ (page = "home" /\ ~loaded /\ StoredChatEmpty /\ loaded')
          => (threadId' = Null /\ messages' = <<>>)

\* C7: selecting a game other than the persisted one removes the persisted thread id
\* and the persisted log and stores the new game id, also when the selected game was
\* active before; from then until the chat page has loaded storage holds no thread
\* id and no message, and the page loads with no thread id and an empty log.
C7_GameSwitchClearsChat == [][GameSwitchStep]_vars

\* the same holds of every step but those of an unmounted page handling its answer
C7_WithoutStaleAnswers == [][lastOp'.op = "staleSuccess" \/ GameSwitchStep]_vars

PersistedSession == GetItem(localStorage, LS_SESSION)

\* what C8 asks of one step
SessionStep ==
    \* the load effect takes the persisted session id when there is one, writing nothing
    /\ (page = "home" /\ ~loaded /\ loaded')
          => /\ Truthy(PersistedSession)
                   => (sessionId' = PersistedSession /\ PersistedSession' = PersistedSession)
             /\ Truthy(sessionId')
             /\ PersistedSession' = sessionId'
             \* a call that follows returns the same value and writes nothing
             /\ \A fresh \in NewSessionIds \cup {SessionB} :
                   getOrCreateSessionId(localStorage', fresh)
                      = [value |-> sessionId', ls |-> localStorage']
    \* the persisted session id is created when there is none, and is replaced only by the
    \* session_id of a response that an ask accepts
    /\ PersistedSession' # PersistedSession
          => \/ /\ ~Truthy(PersistedSession)
                /\ page = "home" /\ ~loaded /\ loaded'
                /\ PersistedSession' \in NewSessionIds
             \/ \E n \in GoodOutcomes :
                   /\ lastOp' \in {Op("success", n), Op("staleSuccess", n)}
                   /\ PersistedSession' = Prop(OutcomeList[n].data, "session_id")

\* C8: the session id is created once and is stable: getOrCreateSessionId returns a
\* persisted id without writing, so two successive calls return the same value; and
\* whatever the operations (ask, failed ask, resetThread, game selection, reload), the
\* persisted session id changes only in the Success step of an ask, where it becomes
\* the session_id of the response.
C8_SessionIdStable == [][SessionStep]_vars

\* a page was loaded that found the session id a response had put into storage
C8_Witness ==
    /\ lastOp.op = "load"
    /\ loaded
    /\ sessionId = SessionB
    /\ PersistedSession = SessionB
    /\ SessionB \notin NewSessionIds

\* the identifiers above that are well-formed: 8-4-4-4-12 hexadecimal digits, version
\* digit 1 to 5, variant digit 8, 9, a or b
WellFormedIds == {SessionA, SessionB, ThreadA, ThreadB}

\* what C9 asks of one step
RequestStep ==
    Accepts
       => LET body == pending'.body
          IN  /\ threadId \in WellFormedIds \cup {Null, BadVersionId, BadVariantId}
              /\ "thread_id" \in DOMAIN body <=> threadId \in WellFormedIds
              /\ "thread_id" \in DOMAIN body => body["thread_id"] = threadId
              /\ {"query", "session_id", "spoilerLevel"} \subseteq DOMAIN body
              /\ body["query"] = Str(Trim(query.v))
              /\ body["session_id"] = sessionId
              /\ body["spoilerLevel"] = Num(spoilerLevel)
              /\ err' = Null
              /\ nSent' = nSent + 1

\* C9: a request carries thread_id only if the thread id of the page is present and
\* well-formed, and then it is that thread id; a malformed thread id, as one restored
\* from damaged storage, is left out of the request and raises no error; query,
\* session_id and spoilerLevel are sent in every request.
C9_ThreadIdSentOnlyIfValid == [][RequestStep]_vars

\* a request went out without the malformed thread id the page holds, and no error is shown
C9_Witness ==
    /\ lastOp.op = "ask"
    /\ pending # NoCall
    /\ threadId = BadVersionId
    /\ "thread_id" \notin DOMAIN pending.body
    /\ err = Null
    /\ loading

\* a request went out with the well-formed thread id the page holds
C9_WitnessSent ==
    /\ lastOp.op = "ask"
    /\ pending # NoCall
    /\ threadId = ThreadA
    /\ "thread_id" \in DOMAIN pending.body
    /\ pending.body["thread_id"] = ThreadA

\* a log as it reads after JSON.stringify and JSON.parse: properties whose value is
\* undefined are gone, nothing else differs
AsStored(msgs) == JSONparse(JSONstringify(msgs)).value

\* the log in storage is the log of the loaded page
LogsAgree == (page = "home" /\ loaded) => PersistedLog = AsStored(messages)

\* C10: storage writes succeeding, the persisted log equals the in-memory log after
\* every append (the user message of an accepted ask, the assistant message of a
\* Success) and after every resetThread, and in no reachable state between the steps
\* of the controller do the two differ.
C10_PersistedLogEqualsMemory == LogsAgree

\* every step of the mounted page that appends to the log or resets it ends with the
\* two logs equal, and only an unmounted page handling its answer separates them
C10_MountedPageKeepsLogsEqual ==
    [][/\ (page = "home" /\ loaded /\ page' = "home" /\ loaded' /\ messages' # messages)
             => PersistedLog' = AsStored(messages')
       /\ resetThread => PersistedLog' = AsStored(messages')
       /\ (LogsAgree /\ lastOp'.op # "staleSuccess") => LogsAgree']_vars

\* what C11 asks of one step
WriteFailureStep ==
    /\ \A n \in GoodOutcomes :
          Settles(n)
             => /\ lastOp'.op = "success"
                /\ err' = err
                /\ ~loading'
                /\ Len(messages') = Len(messages) + 1
                /\ Last(messages')["role"] = Text("assistant")
                /\ sessionId' = Prop(OutcomeList[n].data, "session_id")
                /\ threadId' = Prop(OutcomeList[n].data, "thread_id")
    /\ Accepts
          => /\ err' = Null
             /\ Len(messages') = Len(messages) + 1
             /\ Last(messages')["role"] = Text("user")
    /\ lastOp' = Op("resetThread", 0) /\ (messages' # messages \/ threadId' # threadId)
          => (err' = Null /\ messages' = <<>> /\ threadId' = Null)

\* C11: a write to localStorage that fails during a step of the controller (the log,
\* the thread id, the session id adopted from a response) is swallowed: it sets no
\* displayed error, it does not make a successful answer a failed ask, and the state
\* in memory is updated all the same (the assistant message is appended).
C11_WriteFailureSwallowed == [][WriteFailureStep]_vars

\* C12: loadMessages never fails and returns a sequence of messages: the empty one
\* when nothing is stored, when the text does not parse, or when it parses to
\* something that is no list of messages; the stored sequence, in its order, otherwise.
C12_LoadMessagesTotal ==
    lastOp.op = "readLog"
       => LET raw == GetItem(localStorage, LS_MESSAGES)
          IN  /\ raw \in UnreadableTexts \cup NonListTexts => messages = <<>>
              /\ \A l \in SeqsUpTo(SampleMessages, MaxLogLen) :
                    raw = JsonText(l) => messages = l

\* the same without the texts that parse to something that is no list
C12_ListsAndUnreadableTexts ==
    lastOp.op = "readLog"
       => LET raw == GetItem(localStorage, LS_MESSAGES)
          IN  /\ raw \in UnreadableTexts => messages = <<>>
              /\ \A l \in SeqsUpTo(SampleMessages, MaxLogLen) :
                    raw = JsonText(l) => messages = l

\* the dedup key: the first of url, title, source, chunk_id whose trimmed value is
\* not empty, else the serialized record
KeyFields == <<"url", "title", "source", "chunk_id">>
DedupKey(s) ==
    LET filled == {i \in DOMAIN KeyFields :
                      /\ KeyFields[i] \in DOMAIN s
                      /\ s[KeyFields[i]].t = "string"
                      /\ Trim(s[KeyFields[i]].v) # <<>>}
    IN  IF filled = {}
        THEN StringifySource(s)
        ELSE LET first == CHOOSE i \in filled : \A j \in filled : i <= j
             IN  Str(Trim(s[KeyFields[first]].v))

\* the records of l at the positions I, in the order of l
Pick(l, I) ==
    [k \in 1..Cardinality(I) |-> l[CHOOSE i \in I : Cardinality({j \in I : j <= i}) = k]]

\* the positions of l that hold the first record of their key
FirstOfKey(l) == {i \in DOMAIN l : \A j \in 1..(i - 1) : DedupKey(l[j]) # DedupKey(l[i])}

\* C13: dedupeSources returns the subsequence of the first record of each dedup key,
\* in the order of first appearance; no two records returned share a key, and
\* dedupeSources leaves its own result unchanged.
C13_DedupeKeepsFirstOfKey ==
    lastOp.op = "dedupe"
       => /\ messages = Pick(pending.sources, FirstOfKey(pending.sources))
          /\ \A i, j \in DOMAIN messages :
                DedupKey(messages[i]) = DedupKey(messages[j]) => i = j
          /\ {DedupKey(pending.sources[i]) : i \in DOMAIN pending.sources}
                = {DedupKey(messages[i]) : i \in DOMAIN messages}
          /\ dedupeSources(messages) = messages

\* of three records two were kept: the second had the url of the first, with blanks
\* around it and under another title
C13_Witness ==
    /\ lastOp.op = "dedupe"
    /\ pending.sources = <<WikiSource, WikiSourceAgain, TitleSource>>
    /\ messages = <<WikiSource, TitleSource>>

\* the sources an assistant message of the log holds
SourcesOf(m) == Nullish(Get(m, "sources"), Arr(<<>>)).a

\* what C14 asks of one step
StoredSourcesStep ==
    \A n \in GoodOutcomes :
       Settles(n)
          => LET all == DedupedSources(OutcomeList[n].data).a
             IN  /\ Last(messages')["role"] = Text("assistant")
                 \* every deduplicated source is in the message, in memory and in storage
                 /\ SourcesOf(Last(messages')) = all
                 /\ SourcesOf(Last(loadMessages(localStorage'))) = all

\* C14: the caps of the views (8 in the detail view, 5 inline) limit only what is
\* shown: for a response with more than 8 distinct sources the assistant message of
\* the log, in memory and in storage, holds every deduplicated source.
C14_CapsOnlyLimitDisplay == [][StoredSourcesStep]_vars

SnapPoints == {SPOILER_SNAP_POINTS[i] : i \in DOMAIN SPOILER_SNAP_POINTS}

Clamped(v) == IF v < 0 THEN 0 ELSE IF v > 100 THEN 100 ELSE v

\* the snap point nearest to the clamped number, the lower one of two equally near
Nearest(v) ==
    CHOOSE p \in SnapPoints :
       \A q \in SnapPoints \ {p} :
          \/ Abs(Clamped(v) - p) < Abs(Clamped(v) - q)
          \/ Abs(Clamped(v) - p) = Abs(Clamped(v) - q) /\ p < q

\* C15: snapSpoilerLevel maps every raw number, also one below 0 or above 100, to the
\* member of {0, 33, 66, 100} nearest to the clamped number, the lower member when two are
\* equally near (16 gives 0, 17 gives 33, 83 gives 66); snapping the result again changes
\* nothing; the spoilerLevel the controller holds and the one in every request body is one
\* of the four
C15_SnapIsNearestPoint ==
    /\ spoilerLevel \in SnapPoints
    /\ (page # "slider" /\ pending # NoCall) => pending.body["spoilerLevel"].n \in SnapPoints
    /\ (page = "slider" /\ lastOp.op \in {"snap", "snapAgain"})
          => /\ spoilerLevel = Nearest(pending.raw)
             /\ pending.raw = 16 => spoilerLevel = 0
             /\ pending.raw = 17 => spoilerLevel = 33
             /\ pending.raw = 83 => spoilerLevel = 66

\* the tie of 83 between 66 and 100, snapped twice
C15_Witness ==
    /\ page = "slider"
    /\ lastOp.op = "snapAgain"
    /\ pending.raw = 83
    /\ spoilerLevel = 66

\* an ask in flight whose body carries the level the slider was moved to
C15_WitnessSent ==
    /\ page = "home"
    /\ pending # NoCall
    /\ pending.body["spoilerLevel"] = Num(100)
    /\ spoilerLevel = 100

\* a step of a mounted, loaded chat page
ControllerStep == loaded /\ loaded' /\ page = "home" /\ page' = "home"

IsPrefix(a, b) == Len(a) <= Len(b) /\ SubSeq(b, 1, Len(a)) = a

CreatedInOrder(msgs) ==
    \A i, j \in DOMAIN msgs :
       i < j => msgs[i]["createdAt"].reading <= msgs[j]["createdAt"].reading

AppendOnlyStep ==
    /\ ControllerStep
          => \/ messages' = messages
             \/ Len(messages') = Len(messages) + 1 /\ IsPrefix(messages, messages')
             \/ messages' = <<>> /\ lastOp'.op = "resetThread"
    /\ CreatedInOrder(messages')

C16_WitnessAfterReset ==
    /\ lastOp.op = "success"
    /\ Len(messages) = 1

\* this step adds one user message at the end of the log of the mounted page
UserAppended ==
    /\ ControllerStep
    /\ Len(messages') = Len(messages) + 1
    /\ IsPrefix(messages, messages')
    /\ Last(messages')["role"] = Text("user")

OneRequestPerAskStep ==
    /\ nSent' \in {nSent, nSent + 1}
    \* a request goes out in exactly the steps that append a user message
    /\ (nSent' = nSent + 1) <=> UserAppended
    \* and such a step is a submit that was to be accepted, its call now awaited
    /\ (nSent' = nSent + 1)
          => /\ Truthy(Str(Trim(query.v))) /\ Truthy(sessionId) /\ ~loading
             /\ pending = NoCall /\ pending' # NoCall
    \* the outcome of a call, bad or good, ends the call and starts no other
    /\ (\E n \in Outcomes : Settles(n)) => nSent' = nSent /\ pending' = NoCall

\* C17: every accepted ask invokes the remote endpoint exactly once and a rejected ask
\* never does; a failure of the transport or an invalid response is followed by no further
\* request for that ask; the requests sent are as many as the user messages appended since
\* the last reset or load
C17_OneRequestPerAsk == [][OneRequestPerAskStep]_vars

\* the one ask failed on the transport: one request, one user message, nothing awaited
C17_Witness ==
    /\ lastOp.op = "failed"
    /\ lastOp.arg \in TransportFailures
    /\ nSent = 1
    /\ messages # <<>>
    /\ UserCount(messages) = 1
    /\ pending = NoCall
    /\ ~loading

\* the step that handles the outcome of the awaited call leaves the page Idle, ready to
\* accept a submit with a filled-in query
ReturnsToIdleStep ==
    (\E n \in Outcomes : Settles(n))
       => /\ ~loading'
          /\ pending' = NoCall
          /\ \A q \in Queries :
                Truthy(Str(Trim(q.v))) => AskAccepted(Str(Trim(q.v)), sessionId', loading')

\* C18: every ask that enters Sending brings the controller back to Idle: as the remote
\* call settles in the end, loading becomes false again, on the Success path, on the Failed
\* path and when adopting the response throws, and a new ask is accepted from then on;
\* loading does not stay true forever
C18_AskReturnsToIdle ==
    /\ (loading ~> ~loading)
    /\ [][ReturnsToIdleStep]_vars

\* adopting a good response threw on a storage write: the page is Idle again, the error shown
C18_Witness ==
    /\ page = "home"
    /\ lastOp.op = "failed"
    /\ lastOp.arg \in GoodOutcomes
    /\ err = CaughtError(QuotaError)
    /\ ~loading
    /\ pending = NoCall

\* every assistant message stands right after a user message
AnswersFollowQuestions(msgs) ==
    \A i \in DOMAIN msgs :
       msgs[i]["role"] = Text("assistant") => i > 1 /\ msgs[i - 1]["role"] = Text("user")

\* the awaited call belongs to a question that resetThread has removed since: an accepted
\* submit leaves its user message at the end of the log, and only resetThread takes it away
\* while the call is awaited
AwaitsAnswerFromBeforeReset ==
    /\ page = "home"
    /\ pending # NoCall
    /\ messages = <<>>
    /\ threadId = Null
    /\ GetItem(localStorage, LS_THREAD) = Null

ResetSurvivesAnswerStep ==
    /\ (AwaitsAnswerFromBeforeReset /\ \E n \in Outcomes : Settles(n))
          => /\ threadId' = Null
             /\ GetItem(localStorage', LS_THREAD) = Null
             /\ messages' = <<>>
             /\ loadMessages(localStorage') = <<>>
    /\ AnswersFollowQuestions(messages')

\* C19: a resetThread made while an ask is awaited is not undone by the response of that
\* ask: the thread id stays absent, in memory and in storage, and the log gets no assistant
\* message for a question asked before the reset, until an ask accepted after the reset
\* succeeds; every assistant message of the log stands right after its user message
C19_ResetNotUndoneByAnswer == [][ResetSurvivesAnswerStep]_vars

\* an unmounted page handles the outcome of its call after the menu has removed the thread
\* id and the log from storage: resetThread writes an empty log, only onSelectGame removes it
OldAnswerAfterGameSwitch ==
    /\ stale # <<>>
    /\ GetItem(localStorage, LS_THREAD) = Null
    /\ GetItem(localStorage, LS_MESSAGES) = Null
    /\ stale' # stale
    /\ lastOp'.op \in {"staleSuccess", "staleFailed"}

\* C20: a game switch made while an ask is awaited leaves nothing of the game before: once
\* onSelectGame has removed the persisted thread id and log, the response of the ask of the
\* game before writes neither that thread id nor a message back to storage, and the chat
\* page that loads for the new game has no thread id and an empty log
C20_GameSwitchSurvivesAnswer ==
    [][OldAnswerAfterGameSwitch
          => /\ GetItem(localStorage', LS_THREAD) = Null
             /\ GetItem(localStorage', LS_MESSAGES) = Null
             /\ loadThreadId(localStorage') = Null
             /\ loadMessages(localStorage') = <<>>]_vars

====
